---- MODULE Spec2Model ----
(***************************************************************************)
(* SimplePoll (src/SimplePoll.ts): a directory watcher that polls.  The     *)
(* model keeps the module-level tables (pollHandles, fileModTimes), every   *)
(* SimplePoll instance's fields, the asynchronous operations in flight      *)
(* (the startup scan of the constructor, the scans of poll), the file       *)
(* system the scans read, and the last observable effect of a step (a       *)
(* pollCallback invocation or a thrown error).                              *)
(*                                                                          *)
(* Node runs one callback at a time, so every callback body of the source   *)
(* is one action; what it calls synchronously is part of that action.       *)
(***************************************************************************)
EXTENDS Integers, Sequences, FiniteSets, Bags, TLC

\* ------------------------------------------------------------------ bounds

\* Modification times range over 0..MaxTime (mtimeMs; 0 is the epoch).
MaxTime == 2
\* SimplePoll instances ever constructed in one behaviour.
MaxInst == 1
\* Poll scans of one instance in flight at a time.
MaxScans == 1
\* Changes of the file system in one behaviour (after the initial contents).
MaxFsOps == 2

\* ------------------------------------------------------- strings and paths

\* A string is a sequence of characters; null and undefined are the
\* one-element sequences below (no string made of characters equals them).
Null == <<"null">>
Undefined == <<"undefined">>

\* JavaScript truthiness of a string-or-null value: "", null, undefined are falsy.
FalsyStr(x) == x = <<>> \/ x = Null \/ x = Undefined

\* String(x): what String.prototype.endsWith does to its argument.
ToStr(x) ==
  IF x = Null THEN <<"n", "u", "l", "l">>
  ELSE IF x = Undefined THEN <<"u", "n", "d", "e", "f", "i", "n", "e", "d">>
  ELSE x

\* Files are numbered; PathOf gives the absolute path readdir reports.
PathOf == << <<"/", "d", "/", "b", ".", "t">>,
             <<"/", "d", "/", "a", ".", "t">>,
             <<"/", "d", "/", "c", ".", "j">> >>
Files == DOMAIN PathOf

\* The configured extension of the examples, and the registry keys: two
\* spellings of the one watched directory.
ExtT == <<".", "t">>
Paths == { <<"/", "d">>, <<".", "/", "d">> }

\* s.endsWith(suffix)
endsWith(s, suffix) ==
  LET t == ToStr(suffix)
  IN  /\ Len(t) <= Len(s)
      /\ SubSeq(s, Len(s) - Len(t) + 1, Len(s)) = t

\* UTF-16 code unit of the characters that occur in paths.
Code(c) ==
  CASE c = "." -> 46 [] c = "/" -> 47 [] c = "a" -> 97 [] c = "b" -> 98
    [] c = "c" -> 99 [] c = "d" -> 100 [] c = "j" -> 106 [] c = "t" -> 116
    [] OTHER -> 0

\* p < q for strings, compared by code units (the default of Array.prototype.sort).
RECURSIVE StrLess(_, _)
StrLess(p, q) ==
  IF q = <<>> THEN FALSE
  ELSE IF p = <<>> THEN TRUE
  ELSE IF Code(Head(p)) # Code(Head(q)) THEN Code(Head(p)) < Code(Head(q))
  ELSE StrLess(Tail(p), Tail(q))

\* input.sort(): insertion of each element into the sorted rest.
RECURSIVE SortInsert(_, _)
SortInsert(f, sorted) ==
  IF sorted = <<>> THEN <<f>>
  ELSE IF StrLess(PathOf[Head(sorted)], PathOf[f])
       THEN <<Head(sorted)>> \o SortInsert(f, Tail(sorted))
       ELSE <<f>> \o sorted

\* A sort that returns its input as it came.
keepOrder(input) == input

RECURSIVE defaultSort(_)
defaultSort(input) ==
  IF input = <<>> THEN <<>>
  ELSE SortInsert(Head(input), defaultSort(Tail(input)))

Range(seq) == { seq[k] : k \in DOMAIN seq }

\* The orderings of a set of files: what readdir may list, what a custom
\* sort routine may return.
Orderings(S) ==
  { q \in [1..Cardinality(S) -> S] : Range(q) = S }

\* ------------------------------------------------------------------- state

NoEntry == -1      \* fileModTimes[file] is undefined
Absent == -1       \* the file is not on disk
NoHandle == 0      \* pollHandles[path] is undefined

VARIABLES
  fs,            \* file -> its mtimeMs on disk, or Absent
  rootExists,    \* the watched directory exists
  fileModTimes,  \* file -> last recorded mtimeMs, or NoEntry
  pollHandles,   \* registry key -> instance number, or NoHandle
  inst,          \* the instances constructed so far, in order
  scans,         \* bag of the asynchronous scans in flight
  event,         \* what the last step did that a caller can observe
  hist,          \* per instance: bookkeeping of what the properties speak about
  fsOps,         \* the changes of the file system so far
  limits         \* the bounds of the specification (never changes)

vars == <<fs, rootExists, fileModTimes, pollHandles, inst, scans, event, hist,
          fsOps, limits>>

\* limits.inst: instances ever constructed; limits.scans: poll scans of one
\* instance in flight; limits.fsOps: changes of the file system;
\* limits.track: whether hist is kept; limits.ops: whether event names the
\* user's calls; limits.pairs: whether hist keeps what each instance reported.
Limits(i, s, o, t) ==
  [inst |-> i, scans |-> s, fsOps |-> o, track |-> t, ops |-> FALSE, pairs |-> FALSE]

\* ---------------------------------------------------------- configurations

\* A SimplePollConfig as the caller passes it.  present = FALSE is a null or
\* missing config; path <<>> is a missing or empty path; pollCallback says
\* whether a callback was given; sortMethod is "none" or "custom".
Config(p, e, s, m, cb) ==
  [present |-> TRUE, path |-> p, extension |-> e, sort |-> s,
   sortMethod |-> m, pollCallback |-> cb]

NullConfig ==
  [present |-> FALSE, path |-> <<>>, extension |-> Undefined, sort |-> FALSE,
   sortMethod |-> "none", pollCallback |-> FALSE]

\* !config || !config.path || !config.pollCallback
InvalidConfigNoCallbackTest(config) ==
  ~config.present \/ FalsyStr(config.path)

InvalidConfig(config) ==
  ~config.present \/ FalsyStr(config.path) \/ ~config.pollCallback

\* The fields the constructor sets before it starts the startup scan.
NewInstance(config) ==
  [path |-> config.path,
   extension |-> IF FalsyStr(config.extension) THEN Null ELSE config.extension,
   sort |-> config.sort,
   sortMethod |-> IF config.sort
                  THEN (IF config.sortMethod = "custom" THEN "custom" ELSE "default")
                  ELSE "undefined",
   pollTimer |-> FALSE,
   timers |-> 0,
   startupInit |-> TRUE,
   startupTimerRequest |-> FALSE]

\* ------------------------------------------------------------ start / stop

\* start() without its test of this.startupInit.
startIgnoresInit(rec) ==
  IF rec.pollTimer THEN rec
  ELSE [rec EXCEPT !.pollTimer = TRUE, !.timers = @ + 1]

\* start() without its test of this.pollTimer.
startAlways(rec) ==
  IF rec.startupInit THEN [rec EXCEPT !.startupTimerRequest = TRUE]
  ELSE [rec EXCEPT !.pollTimer = TRUE, !.timers = @ + 1]

\* start(): the instance after the call.  pollTimer = TRUE: this.pollTimer
\* holds a timer handle; timers: the timeouts of the instance that setTimeout
\* has armed and that have neither fired nor been cleared.
start(rec) ==
  IF rec.pollTimer THEN rec
  ELSE IF rec.startupInit THEN [rec EXCEPT !.startupTimerRequest = TRUE]
  ELSE [rec EXCEPT !.pollTimer = TRUE, !.timers = @ + 1]

\* stop() that forgets to clear the timer.
stopKeepsTimer(rec) == rec

\* stop(): the instance after the call.
stop(rec) ==
  IF ~rec.pollTimer THEN rec
  ELSE [rec EXCEPT !.pollTimer = FALSE, !.timers = @ - 1]

\* getHandle(directory): the instance number, or NoHandle for null.
getHandle(directory) ==
  IF directory \in DOMAIN pollHandles /\ pollHandles[directory] # NoHandle
  THEN pollHandles[directory]
  ELSE NoHandle

\* ------------------------------------------------------------------ events

\* cycle: the kind of scan that came to its end in this step ("startup",
\* "poll") or "none"; w: the instance it belongs to (0: none); stage: where
\* it ended ("list": in readdir's callback, "stat": in an fs.stat callback,
\* "filter": after the filter, "sort": in the custom sort's callback); error:
\* the error that scan ended with ("null": none); out: "onResult" when
\* pollCallback(error, files) was invoked; fdef: files was an array (FALSE:
\* undefined); thrown: the error the step threw ("none": nothing thrown).
\* op, changed (kept while limits.ops): the user's call this step was
\* ("create", "new", "destroy", "start", "stop") with w the instance it
\* reached, and whether it changed the registry or an instance.
Quiet ==
  [cycle |-> "none", w |-> 0, stage |-> "none", out |-> "none", thrown |-> "none",
   error |-> "null", fdef |-> FALSE, files |-> <<>>, op |-> "none", changed |-> FALSE]

Called(op, w, changed) ==
  IF limits.ops THEN [Quiet EXCEPT !.op = op, !.w = w, !.changed = changed] ELSE Quiet

CycleEnd(kind, w, stage, error) ==
  [Quiet EXCEPT !.cycle = kind, !.w = w, !.stage = stage, !.error = error]

\* ------------------------------------------------------------------- scans

\* One asynchronous scan: the startup scan of a constructor or the scanDir of
\* a poll.  files is the listing, pending the matching files whose fs.stat
\* has not called back, keep the files the filter keeps, failed says that the
\* scan has already ended with an error (stats still in flight call back
\* into a finished batch).
NewScan(w, kind) ==
  [w |-> w, kind |-> kind, stage |-> "list", files |-> <<>>,
   pending |-> {}, keep |-> {}, failed |-> FALSE]

ScanSet == BagToSet(scans)

RECURSIVE CountOf(_, _)
CountOf(S, w) ==
  IF S = {} THEN 0
  ELSE LET s == CHOOSE x \in S : TRUE
       IN  (IF s.w = w /\ s.kind = "poll" THEN CopiesIn(s, scans) ELSE 0)
           + CountOf(S \ {s}, w)

\* The poll scans of instance w with callbacks outstanding (a scan that failed
\* counts until its last stat has called back).
PollScans(w) == CountOf(ScanSet, w)

Put(s) == scans (+) SetToBag({s})
Drop(s) == scans (-) SetToBag({s})
Replace(s, t) == (scans (-) SetToBag({s})) (+) SetToBag({t})

\* ----------------------------------------------------------- bookkeeping

\* What the properties need to remember about instance k (no code reads it):
\*   pre    the files on disk when k was constructed, not written or removed since
\*   first  no poll cycle of k has come to its end yet
\*   exact  k is the only instance, every cycle so far ended without error, and
\*          the file system changed only between cycles, by files appearing or
\*          mtimes rising
\*   news   (while exact) the files that appeared since the last cycle ended
\*   mods   (while exact) the files whose mtime rose since the last cycle ended
NewHist(only) ==
  [pre |-> { f \in Files : fs[f] # Absent }, first |-> TRUE, exact |-> only,
   news |-> {}, mods |-> {}]

Blur(h) == [h EXCEPT !.exact = FALSE, !.news = {}, !.mods = {}]

\* A scan of instance k has callbacks outstanding.
Busy(k) == \E s \in ScanSet : s.w = k /\ s.stage # "dead"

HistFs(f, m) ==
  IF ~limits.track THEN hist ELSE
  [k \in DOMAIN hist |->
     LET h == [hist[k] EXCEPT !.pre = @ \ {f}]
     IN  IF ~h.exact \/ Busy(k) \/ m = Absent \/ ~rootExists THEN Blur(h)
         ELSE IF fs[f] = Absent /\ f \notin h.mods THEN [h EXCEPT !.news = @ \cup {f}]
         ELSE IF fs[f] # Absent /\ m > fs[f]
              THEN (IF f \in h.news THEN h ELSE [h EXCEPT !.mods = @ \cup {f}])
         ELSE Blur(h)]

\* While limits.ops, hist remembers per instance only
\*   stopped  the user has called stop() on it and has not called start()
\*            since
HistNew ==
  IF limits.track THEN [k \in DOMAIN hist |-> Blur(hist[k])] \o <<NewHist(inst = <<>>)>>
  ELSE IF limits.ops THEN Append(hist, [stopped |-> FALSE])
  ELSE IF limits.pairs THEN Append(hist, [cur |-> {}, got |-> {}])
  ELSE hist

HistCall(w, stopped) ==
  IF limits.ops THEN [hist EXCEPT ![w].stopped = stopped] ELSE hist

HistBlur(w) == IF ~limits.track THEN hist ELSE [hist EXCEPT ![w] = Blur(@)]

\* A poll cycle of instance w came to its end; clean: without error or throw.
HistCycle(w, clean) ==
  IF ~limits.track THEN hist ELSE
  [hist EXCEPT ![w] =
     IF @.exact /\ clean THEN [@ EXCEPT !.first = FALSE, !.news = {}, !.mods = {}]
     ELSE Blur([@ EXCEPT !.first = FALSE])]

\* While limits.pairs, hist remembers per instance
\*   cur  the pairs <<file, mtimeMs>> the filter of its running poll cycle kept
\*   got  the pairs of the files its poll cycles delivered to onResult
HistKeep(w, f, m, keep) ==
  IF limits.pairs /\ keep THEN [hist EXCEPT ![w].cur = @ \cup {<<f, m>>}] ELSE hist

HistEnd(w, clean, files) ==
  IF limits.pairs
  THEN [hist EXCEPT ![w] = [cur |-> {},
                            got |-> @.got \cup { p \in @.cur : \E k \in DOMAIN files :
                                                                  files[k] = p[1] }]]
  ELSE HistCycle(w, clean)

\* ---------------------------------------------------------- the registry

\* new SimplePoll(config): the constructor, up to the call of readdir.read;
\* started: create calls start() on the new instance before anything else runs.
Construct(config, started) ==
  /\ inst' = Append(inst, IF started THEN start(NewInstance(config))
                          ELSE NewInstance(config))
  /\ scans' = Put(NewScan(Len(inst) + 1, "startup"))
  /\ hist' = HistNew

\* throw new Error("Invalid SimplePoll configuration")
ThrowConfig ==
  /\ event' = [Quiet EXCEPT !.thrown = "Error"]
  /\ UNCHANGED <<limits, fsOps, fs, rootExists, fileModTimes, pollHandles, inst, scans, hist>>

\* The startup scan of instance w has thrown.
StartupFailed(w) ==
  \E s \in ScanSet : s.w = w /\ s.kind = "startup" /\ s.failed

\* new SimplePoll(config), called by the user.
New(config) ==
  IF InvalidConfig(config) THEN ThrowConfig
  ELSE /\ Len(inst) < limits.inst
       /\ Construct(config, FALSE)
       /\ event' = Called("new", Len(inst) + 1, TRUE)
       /\ UNCHANGED <<limits, fsOps, fs, rootExists, fileModTimes, pollHandles>>

createFresh(config) ==
  IF InvalidConfig(config) THEN ThrowConfig
  ELSE IF pollHandles[config.path] = NoHandle \/ StartupFailed(pollHandles[config.path])
  THEN /\ Len(inst) < limits.inst
       /\ Construct(config, TRUE)
       /\ pollHandles' = [pollHandles EXCEPT ![config.path] = Len(inst) + 1]
       /\ event' = Called("create", Len(inst) + 1, TRUE)
       /\ UNCHANGED <<limits, fsOps, fs, rootExists, fileModTimes>>
  ELSE /\ event' = Called("create", pollHandles[config.path], FALSE)
       /\ UNCHANGED <<limits, fsOps, fs, rootExists, fileModTimes, pollHandles, inst,
                      scans, hist>>

\* create that calls start() on the instance it finds registered.
createRestarts(config) ==
  IF InvalidConfig(config) THEN ThrowConfig
  ELSE IF pollHandles[config.path] = NoHandle
  THEN /\ Len(inst) < limits.inst
       /\ Construct(config, TRUE)
       /\ pollHandles' = [pollHandles EXCEPT ![config.path] = Len(inst) + 1]
       /\ event' = Called("create", Len(inst) + 1, TRUE)
       /\ UNCHANGED <<limits, fsOps, fs, rootExists, fileModTimes>>
  ELSE /\ inst' = [inst EXCEPT ![pollHandles[config.path]] = start(@)]
       /\ event' = Called("create", pollHandles[config.path], FALSE)
       /\ UNCHANGED <<limits, fsOps, fs, rootExists, fileModTimes, pollHandles,
                      scans, hist>>

\* create(config)
create(config) ==
  IF InvalidConfig(config) THEN ThrowConfig
  ELSE IF pollHandles[config.path] = NoHandle
  THEN /\ Len(inst) < limits.inst
       /\ Construct(config, TRUE)
       /\ pollHandles' = [pollHandles EXCEPT ![config.path] = Len(inst) + 1]
       /\ event' = Called("create", Len(inst) + 1, TRUE)
       /\ UNCHANGED <<limits, fsOps, fs, rootExists, fileModTimes>>
  ELSE /\ event' = Called("create", pollHandles[config.path], FALSE)
       /\ UNCHANGED <<limits, fsOps, fs, rootExists, fileModTimes, pollHandles, inst,
                      scans, hist>>

\* destroy that also empties fileModTimes.
destroyForgets(directory) ==
  /\ IF FalsyStr(directory) \/ getHandle(directory) = NoHandle
     THEN UNCHANGED <<inst, pollHandles, fileModTimes>>
     ELSE /\ inst' = [inst EXCEPT ![getHandle(directory)] = stop(@)]
          /\ pollHandles' = [pollHandles EXCEPT ![directory] = NoHandle]
          /\ fileModTimes' = [f \in Files |-> NoEntry]
  /\ event' = Called("destroy", getHandle(directory), getHandle(directory) # NoHandle)
  /\ UNCHANGED <<limits, fsOps, fs, rootExists, scans, hist>>

\* destroy(directory)
destroy(directory) ==
  /\ IF FalsyStr(directory) \/ getHandle(directory) = NoHandle
     THEN UNCHANGED <<inst, pollHandles>>
     ELSE /\ inst' = [inst EXCEPT ![getHandle(directory)] = stop(@)]
          /\ pollHandles' = [pollHandles EXCEPT ![directory] = NoHandle]
  /\ event' = Called("destroy", getHandle(directory), getHandle(directory) # NoHandle)
  /\ UNCHANGED <<limits, fsOps, fs, rootExists, fileModTimes, scans, hist>>

\* instance.start() and instance.stop(), called by the user.
Start(w) ==
  /\ inst' = [inst EXCEPT ![w] = start(@)]
  /\ event' = Called("start", w, start(inst[w]) # inst[w])
  /\ hist' = HistCall(w, FALSE)
  /\ UNCHANGED <<limits, fsOps, fs, rootExists, fileModTimes, pollHandles, scans>>

Stop(w) ==
  /\ inst' = [inst EXCEPT ![w] = stop(@)]
  /\ event' = Called("stop", w, stop(inst[w]) # inst[w])
  /\ hist' = HistCall(w, TRUE)
  /\ UNCHANGED <<limits, fsOps, fs, rootExists, fileModTimes, pollHandles, scans>>

\* ------------------------------------------------------- the file system

\* A file is written: created, or its mtime set (fs-extra's outputFileSync
\* makes the directory when it is missing).
FsWrite(f, m) ==
  /\ fsOps < limits.fsOps
  /\ fsOps' = fsOps + 1
  /\ limits' = limits
  /\ m # fs[f]
  /\ fs' = [fs EXCEPT ![f] = m]
  /\ rootExists' = TRUE
  /\ hist' = HistFs(f, m)
  /\ event' = Quiet
  /\ UNCHANGED <<fileModTimes, pollHandles, inst, scans>>

FsRemove(f) ==
  /\ fsOps < limits.fsOps
  /\ fsOps' = fsOps + 1
  /\ limits' = limits
  /\ fs[f] # Absent
  /\ fs' = [fs EXCEPT ![f] = Absent]
  /\ hist' = HistFs(f, Absent)
  /\ event' = Quiet
  /\ UNCHANGED <<rootExists, fileModTimes, pollHandles, inst, scans>>

\* The watched directory is removed with all it holds, or made (empty).
FsRemoveRoot ==
  /\ fsOps < limits.fsOps
  /\ fsOps' = fsOps + 1
  /\ limits' = limits
  /\ rootExists
  /\ rootExists' = FALSE
  /\ fs' = [f \in Files |-> Absent]
  /\ hist' = [k \in DOMAIN hist |-> Blur([hist[k] EXCEPT !.pre = {}])]
  /\ event' = Quiet
  /\ UNCHANGED <<fileModTimes, pollHandles, inst, scans>>

FsMakeRoot ==
  /\ fsOps < limits.fsOps
  /\ fsOps' = fsOps + 1
  /\ limits' = limits
  /\ ~rootExists
  /\ rootExists' = TRUE
  /\ hist' = [k \in DOMAIN hist |-> Blur(hist[k])]
  /\ event' = Quiet
  /\ UNCHANGED <<fs, fileModTimes, pollHandles, inst, scans>>

\* What readdir.read(path, callback) calls back with: an error alone, or
\* null and the files on disk in some order.
ListResults ==
  IF ~rootExists THEN { [error |-> "ENOENT", files |-> <<>>] }
  ELSE { [error |-> "EIO", files |-> <<>>] }
       \cup { [error |-> "null", files |-> q] :
                q \in Orderings({ f \in Files : fs[f] # Absent }) }

\* What fs.stat(file, callback) calls back with: an error, or null and stats.
StatResults(f) ==
  IF fs[f] = Absent THEN { [error |-> "ENOENT", mtimeMs |-> 0] }
  ELSE { [error |-> "EIO", mtimeMs |-> 0], [error |-> "null", mtimeMs |-> fs[f]] }

\* ------------------------------------------------------- the startup scan

\* The final callback of the constructor's async.eachLimit, without error.
startupDone(rec) ==
  LET r == [rec EXCEPT !.startupInit = FALSE]
  IN  IF r.startupTimerRequest THEN start(r) ELSE r

\* The same callback (or the readdir callback) with an error: it throws.
startupFailedGoesOn(rec, error) == startupDone(rec)

startupFailed(rec, error) == rec

StartupEnd(s) ==
  /\ inst' = [inst EXCEPT ![s.w] = startupDone(@)]
  /\ scans' = Drop(s)
  /\ event' = CycleEnd("startup", s.w, s.stage, "null")
  /\ hist' = hist

\* The scan ends by throwing; stats still in flight stay in flight.
StartupThrow(s, error, pending) ==
  /\ inst' = [inst EXCEPT ![s.w] = startupFailed(@, error)]
  /\ scans' = Replace(s, [s EXCEPT !.failed = TRUE, !.pending = pending, !.files = <<>>,
                                   !.stage = IF pending = {} THEN "dead" ELSE "stat"])
  /\ event' = [CycleEnd("startup", s.w, s.stage, error) EXCEPT !.thrown = error]
  /\ hist' = HistBlur(s.w)

\* readdir.read's callback in the constructor.
StartupListed(s, r) ==
  /\ s.kind = "startup" /\ s.stage = "list"
  /\ UNCHANGED <<limits, fsOps, fs, rootExists, fileModTimes, pollHandles>>
  /\ IF r.error # "null" THEN StartupThrow(s, r.error, {})
     ELSE LET matching == { f \in Range(r.files) : endsWith(PathOf[f], inst[s.w].extension) }
          IN  IF matching = {} THEN StartupEnd(s)
              ELSE /\ scans' = Replace(s, [s EXCEPT !.stage = "stat", !.pending = matching])
                   /\ event' = Quiet
                   /\ UNCHANGED <<inst, hist>>

\* fs.stat's callback in the constructor.
StartupStat(s, f, r) ==
  /\ s.kind = "startup" /\ s.stage = "stat" /\ f \in s.pending
  /\ UNCHANGED <<limits, fsOps, fs, rootExists, pollHandles>>
  /\ fileModTimes' = IF r.error = "null" THEN [fileModTimes EXCEPT ![f] = r.mtimeMs]
                     ELSE fileModTimes
  /\ LET pending == s.pending \ {f}
     IN  IF s.failed
         THEN /\ scans' = Replace(s, [s EXCEPT !.pending = pending,
                                        !.stage = IF pending = {} THEN "dead" ELSE "stat"])
              /\ event' = Quiet
              /\ UNCHANGED <<inst, hist>>
         ELSE IF r.error # "null" THEN StartupThrow(s, r.error, pending)
         ELSE IF pending = {} THEN StartupEnd(s)
         ELSE /\ scans' = Replace(s, [s EXCEPT !.pending = pending])
              /\ event' = Quiet
              /\ UNCHANGED <<inst, hist>>

\* ---------------------------------------------------------- the poll cycle

\* fileModTimes[file] is falsy.
NoModTime(t) == t = NoEntry \/ t = 0

\* !fileModTimes[file] || fileModTimes[file] < stats.mtimeMs
keepFile(stored, mtimeMs) == NoModTime(stored) \/ stored < mtimeMs

\* poll's callback: (error && error.code !== "ENOENT") || files.length > 0.
\* files.length throws a TypeError when it is read on an undefined files.
lengthThrows(error, fdef) ==
  ~(error # "null" /\ error # "ENOENT") /\ ~fdef

reportableAlways(error, fdef, files) == TRUE

reportable(error, fdef, files) ==
  (error # "null" /\ error # "ENOENT") \/ (fdef /\ Len(files) > 0)

\* return this.start() at the end of poll's callback.
rearmOnSuccessOnly(rec, error) == IF error = "null" THEN start(rec) ELSE rec

rearm(rec, error) == start(rec)

\* The callback poll gives to scanDir, with the scan's result.
PollEnd(w, stage, error, fdef, files) ==
  /\ inst' = [inst EXCEPT ![w] = IF lengthThrows(error, fdef) THEN @ ELSE rearm(@, error)]
  /\ event' =
       IF lengthThrows(error, fdef)
       THEN [CycleEnd("poll", w, stage, error) EXCEPT !.thrown = "TypeError"]
       ELSE IF reportable(error, fdef, files)
       THEN [CycleEnd("poll", w, stage, error) EXCEPT !.out = "onResult", !.fdef = fdef,
                                               !.files = files]
       ELSE CycleEnd("poll", w, stage, error)
  /\ hist' = HistEnd(w, error = "null" /\ ~lengthThrows(error, fdef),
                     IF ~lengthThrows(error, fdef) /\ reportable(error, fdef, files)
                     THEN files ELSE <<>>)

\* sortFiles of scanDir, called with the filtered list.
SortStage(s, stage, files) ==
  LET rec == inst[s.w]
  IN  IF Len(files) < 2 \/ ~rec.sort
      THEN PollEnd(s.w, stage, "null", TRUE, files) /\ scans' = Drop(s)
      ELSE IF rec.sortMethod = "default"
      THEN PollEnd(s.w, stage, "null", TRUE, defaultSort(files)) /\ scans' = Drop(s)
      ELSE /\ scans' = Replace(s, [s EXCEPT !.stage = "sort", !.files = files,
                                            !.pending = {}, !.keep = {}])
           /\ event' = Quiet
           /\ UNCHANGED <<inst, hist>>

\* poll() without its call of this.stop(): the handle of the timeout that
\* fired stays in this.pollTimer.
TimerFireKeepsHandle(w) ==
  /\ inst[w].timers > 0
  /\ PollScans(w) < limits.scans
  /\ inst' = [inst EXCEPT ![w].timers = @ - 1]
  /\ scans' = Put(NewScan(w, "poll"))
  /\ hist' = IF Busy(w) THEN HistBlur(w) ELSE hist
  /\ event' = Quiet
  /\ UNCHANGED <<limits, fsOps, fs, rootExists, fileModTimes, pollHandles>>

\* The timer fires: poll() stops the timer and calls scanDir.  The timeout
\* that fired is armed no more; this.pollTimer names it, so clearTimeout in
\* stop() clears nothing else.
TimerFire(w) ==
  /\ inst[w].timers > 0
  /\ PollScans(w) < limits.scans
  /\ inst' = [inst EXCEPT ![w] = [stop(@) EXCEPT !.timers = inst[w].timers - 1]]
  /\ scans' = Put(NewScan(w, "poll"))
  /\ hist' = IF Busy(w) THEN HistBlur(w) ELSE hist
  /\ event' = Quiet
  /\ UNCHANGED <<limits, fsOps, fs, rootExists, fileModTimes, pollHandles>>

\* filterFiles that stats the matching files also when no extension is
\* configured.
PollListedFilters(s, r) ==
  /\ s.kind = "poll" /\ s.stage = "list"
  /\ UNCHANGED <<limits, fsOps, fs, rootExists, fileModTimes, pollHandles>>
  /\ IF r.error # "null"
     THEN PollEnd(s.w, "list", r.error, FALSE, <<>>) /\ scans' = Drop(s)
     ELSE IF Len(r.files) = 0
     THEN SortStage(s, "list", r.files)
     ELSE /\ scans' = Replace(s, [s EXCEPT !.stage = "stat",
               !.files = SelectSeq(r.files, LAMBDA f : endsWith(PathOf[f], inst[s.w].extension)),
               !.pending = { f \in Range(r.files) : endsWith(PathOf[f], inst[s.w].extension) }])
          /\ event' = Quiet
          /\ UNCHANGED <<inst, hist>>

\* readdir.read's callback in scanDir, and filterFiles up to its fs.stat calls.
PollListed(s, r) ==
  /\ s.kind = "poll" /\ s.stage = "list"
  /\ UNCHANGED <<limits, fsOps, fs, rootExists, fileModTimes, pollHandles>>
  /\ IF r.error # "null"
     THEN PollEnd(s.w, "list", r.error, FALSE, <<>>) /\ scans' = Drop(s)
     ELSE IF Len(r.files) = 0 \/ FalsyStr(inst[s.w].extension)
     THEN SortStage(s, "list", r.files)
     ELSE /\ scans' = Replace(s, [s EXCEPT !.stage = "stat",
               !.files = SelectSeq(r.files, LAMBDA f : endsWith(PathOf[f], inst[s.w].extension)),
               !.pending = { f \in Range(r.files) : endsWith(PathOf[f], inst[s.w].extension) }])
          /\ event' = Quiet
          /\ UNCHANGED <<inst, hist>>

\* fs.stat's callback in filterFiles.
PollStat(s, f, r) ==
  /\ s.kind = "poll" /\ s.stage = "stat" /\ f \in s.pending
  /\ UNCHANGED <<limits, fsOps, fs, rootExists, pollHandles>>
  /\ LET pending == s.pending \ {f}
         keep == r.error = "null" /\ keepFile(fileModTimes[f], r.mtimeMs)
     IN  /\ fileModTimes' = IF keep THEN [fileModTimes EXCEPT ![f] = r.mtimeMs]
                            ELSE fileModTimes
         /\ IF s.failed
            THEN /\ scans' = IF pending = {} THEN Drop(s)
                             ELSE Replace(s, [s EXCEPT !.pending = pending])
                 /\ event' = Quiet
                 /\ UNCHANGED <<inst, hist>>
            ELSE IF r.error # "null"
            THEN /\ PollEnd(s.w, "stat", r.error, FALSE, <<>>)
                 /\ scans' = IF pending = {} THEN Drop(s)
                             ELSE Replace(s, [s EXCEPT !.failed = TRUE, !.pending = pending,
                                                       !.files = <<>>, !.keep = {}])
            ELSE /\ scans' = Replace(s, [s EXCEPT !.pending = pending,
                               !.keep = IF keep THEN @ \cup {f} ELSE @])
                 /\ event' = Quiet
                 /\ hist' = HistKeep(s.w, f, r.mtimeMs, keep)
                 /\ inst' = inst

\* The last filterCallback of async.filterLimit: filterFiles is done.
FilterDone(s) ==
  /\ s.kind = "poll" /\ s.stage = "stat" /\ s.pending = {} /\ ~s.failed
  /\ UNCHANGED <<limits, fsOps, fs, rootExists, fileModTimes, pollHandles>>
  /\ SortStage(s, "filter", SelectSeq(s.files, LAMBDA f : f \in s.keep))

\* The callback of a custom sortMethod: an error alone, or null and the list
\* in the routine's order.
SortResults(files) ==
  { [error |-> "ESORT", fdef |-> FALSE, files |-> <<>>] }
  \cup { [error |-> "null", fdef |-> TRUE, files |-> q] : q \in Orderings(Range(files)) }

SortDone(s, r) ==
  /\ s.kind = "poll" /\ s.stage = "sort"
  /\ UNCHANGED <<limits, fsOps, fs, rootExists, fileModTimes, pollHandles>>
  /\ PollEnd(s.w, "sort", r.error, r.fdef, r.files)
  /\ scans' = Drop(s)

\* --------------------------------------------------------- specifications

Times == 0..MaxTime

\* The mtimes a file may get.  No instance of the model is configured with an
\* extension that /d/c.j ends with, so its mtime is never read and one value
\* stands for all.
Mtimes(f) == IF endsWith(PathOf[f], ExtT) THEN Times ELSE {1}

InitWith(l) ==
  /\ limits = l
  /\ rootExists \in BOOLEAN
  /\ fs \in [Files -> {Absent} \cup Times]
  /\ \A f \in Files : fs[f] # Absent => fs[f] \in Mtimes(f)
  /\ ~rootExists => fs = [f \in Files |-> Absent]
  /\ fsOps = 0
  /\ fileModTimes = [f \in Files |-> NoEntry]
  /\ pollHandles = [p \in Paths |-> NoHandle]
  /\ inst = <<>>
  /\ scans = EmptyBag
  /\ event = Quiet
  /\ hist = <<>>

\* The configurations create is called with: the directory under its
\* absolute path, with or without the extension filter, unsorted, sorted by
\* default or by a custom routine.
Sorts == { <<FALSE, "none">>, <<TRUE, "none">>, <<TRUE, "custom">> }

Configs ==
  { Config(<<"/", "d">>, e, s[1], s[2], TRUE) : e \in {ExtT, Undefined}, s \in Sorts }

\* The configurations the constructor and create reject, and one they accept.
BadConfigs ==
  { NullConfig,
    Config(<<>>, ExtT, FALSE, "none", TRUE),
    Config(<<"/", "d">>, ExtT, FALSE, "none", FALSE),
    Config(<<>>, Undefined, TRUE, "custom", FALSE) }

\* One watch at a time, made by create with a valid configuration.
Next ==
  \/ \E c \in Configs : create(c)
  \/ \E d \in Paths \cup {<<>>} : destroy(d)
  \/ \E w \in DOMAIN inst : Start(w)
  \/ \E w \in DOMAIN inst : Stop(w)
  \/ \E w \in DOMAIN inst : TimerFire(w)
  \/ \E s \in ScanSet : \E r \in ListResults : StartupListed(s, r)
  \/ \E s \in ScanSet : \E f \in s.pending : \E r \in StatResults(f) : StartupStat(s, f, r)
  \/ \E s \in ScanSet : \E r \in ListResults : PollListed(s, r)
  \/ \E s \in ScanSet : \E f \in s.pending : \E r \in StatResults(f) : PollStat(s, f, r)
  \/ \E s \in ScanSet : FilterDone(s)
  \/ \E s \in ScanSet : \E r \in SortResults(s.files) : SortDone(s, r)
  \/ \E f \in Files : \E m \in Mtimes(f) : FsWrite(f, m)
  \/ \E f \in Files : FsRemove(f)
  \/ FsRemoveRoot
  \/ FsMakeRoot

Init == InitWith(Limits(MaxInst, MaxScans, MaxFsOps, FALSE))

Spec == Init /\ [][Next]_vars

\* The same with the bookkeeping of hist kept.
InitTracked == InitWith(Limits(MaxInst, MaxScans, MaxFsOps, TRUE))

SpecTracked == InitTracked /\ [][Next]_vars

\* The callers that pass any configuration, to create and to the constructor.
NextConfig ==
  \/ \E c \in Configs \cup BadConfigs : create(c)
  \/ \E c \in Configs \cup BadConfigs : New(c)
  \/ \E d \in Paths \cup {<<>>} : destroy(d)
  \/ \E w \in DOMAIN inst : Start(w)
  \/ \E w \in DOMAIN inst : TimerFire(w)
  \/ \E s \in ScanSet : \E r \in ListResults : StartupListed(s, r)
  \/ \E s \in ScanSet : \E f \in s.pending : \E r \in StatResults(f) : StartupStat(s, f, r)
  \/ \E s \in ScanSet : \E r \in ListResults : PollListed(s, r)
  \/ \E s \in ScanSet : \E f \in s.pending : \E r \in StatResults(f) : PollStat(s, f, r)
  \/ \E s \in ScanSet : FilterDone(s)
  \/ \E s \in ScanSet : \E r \in SortResults(s.files) : SortDone(s, r)
  \/ \E f \in Files : \E m \in Mtimes(f) : FsWrite(f, m)

SpecConfig == Init /\ [][NextConfig]_vars

\* The user's calls on two registry keys of the one directory, with or
\* without the extension filter, with event naming each call.
CallsInst == 2
CallsScans == 1
CallsFsOps == 0

CallConfigs == { Config(p, e, FALSE, "none", TRUE) : p \in Paths, e \in {ExtT, Undefined} }

\* The directory is missing, or empty, or holds the one matching file b.t.
InitCalls ==
  /\ InitWith([Limits(CallsInst, CallsScans, CallsFsOps, FALSE) EXCEPT !.ops = TRUE])
  /\ fs[1] \in {Absent, 1}
  /\ fs[2] = Absent /\ fs[3] = Absent

NextCalls ==
  \/ \E c \in CallConfigs : create(c)
  \/ \E c \in CallConfigs : New(c)
  \/ \E d \in Paths \cup {<<>>} : destroy(d)
  \/ \E w \in DOMAIN inst : Start(w)
  \/ \E w \in DOMAIN inst : Stop(w)
  \/ \E w \in DOMAIN inst : TimerFire(w)
  \/ \E s \in ScanSet : \E r \in ListResults : StartupListed(s, r)
  \/ \E s \in ScanSet : \E f \in s.pending : \E r \in StatResults(f) : StartupStat(s, f, r)
  \/ \E s \in ScanSet : \E r \in ListResults : PollListed(s, r)
  \/ \E s \in ScanSet : \E f \in s.pending : \E r \in StatResults(f) : PollStat(s, f, r)
  \/ \E s \in ScanSet : FilterDone(s)

SpecCalls == InitCalls /\ [][NextCalls]_vars

\* The same calls on one watch whose poll scans may overlap.
OverlapInst == 1
OverlapScans == 2

InitOverlap ==
  InitWith([Limits(OverlapInst, OverlapScans, CallsFsOps, FALSE) EXCEPT !.ops = TRUE])

SpecOverlap == InitOverlap /\ [][NextCalls]_vars

\* A watch left to itself: made by create or by the constructor, destroyed
\* perhaps, but never started or stopped through its handle, on a directory
\* that stays in place while files are written and removed in it.
InitAuto ==
  /\ InitWith([Limits(MaxInst, MaxScans, MaxFsOps, FALSE) EXCEPT !.ops = TRUE])
  /\ rootExists

NextAuto ==
  \/ \E c \in CallConfigs : create(c)
  \/ \E c \in CallConfigs : New(c)
  \/ \E d \in Paths \cup {<<>>} : destroy(d)
  \/ \E w \in DOMAIN inst : TimerFire(w)
  \/ \E s \in ScanSet : \E r \in ListResults : StartupListed(s, r)
  \/ \E s \in ScanSet : \E f \in s.pending : \E r \in StatResults(f) : StartupStat(s, f, r)
  \/ \E s \in ScanSet : \E r \in ListResults : PollListed(s, r)
  \/ \E s \in ScanSet : \E f \in s.pending : \E r \in StatResults(f) : PollStat(s, f, r)
  \/ \E s \in ScanSet : FilterDone(s)
  \/ \E f \in Files : \E m \in Mtimes(f) : FsWrite(f, m)
  \/ \E f \in Files : FsRemove(f)

SpecAuto == InitAuto /\ [][NextAuto]_vars

\* One watch made by create, started and stopped through its handle while
\* the file system changes behind it.
LiveFsOps == 2

InitLive ==
  InitWith([Limits(MaxInst, MaxScans, LiveFsOps, FALSE) EXCEPT !.ops = TRUE])

NextLive ==
  \/ \E c \in CallConfigs : create(c)
  \/ \E w \in DOMAIN inst : Start(w)
  \/ \E w \in DOMAIN inst : Stop(w)
  \/ \E w \in DOMAIN inst : TimerFire(w)
  \/ \E s \in ScanSet : \E r \in ListResults : StartupListed(s, r)
  \/ \E s \in ScanSet : \E f \in s.pending : \E r \in StatResults(f) : StartupStat(s, f, r)
  \/ \E s \in ScanSet : \E r \in ListResults : PollListed(s, r)
  \/ \E s \in ScanSet : \E f \in s.pending : \E r \in StatResults(f) : PollStat(s, f, r)
  \/ \E s \in ScanSet : FilterDone(s)
  \/ \E f \in Files : \E m \in Mtimes(f) : FsWrite(f, m)
  \/ \E f \in Files : FsRemove(f)
  \/ FsRemoveRoot
  \/ FsMakeRoot

SpecLive == InitLive /\ [][NextLive]_vars

\* Two watches with the extension filter on the two keys of the one
\* directory, left to themselves while /d/b.t is written with rising
\* modification times, so that a time names one modification; hist keeps what
\* each of them reported.
PairInst == 2
PairFsOps == 3

PairConfigs == { Config(p, ExtT, FALSE, "none", TRUE) : p \in Paths }

InitPair ==
  /\ InitWith([Limits(PairInst, MaxScans, PairFsOps, FALSE) EXCEPT !.pairs = TRUE])
  /\ rootExists
  /\ fs[2] = Absent /\ fs[3] = Absent

NextPair ==
  \/ \E c \in PairConfigs : create(c)
  \/ \E w \in DOMAIN inst : TimerFire(w)
  \/ \E s \in ScanSet : \E r \in ListResults : StartupListed(s, r)
  \/ \E s \in ScanSet : \E f \in s.pending : \E r \in StatResults(f) : StartupStat(s, f, r)
  \/ \E s \in ScanSet : \E r \in ListResults : PollListed(s, r)
  \/ \E s \in ScanSet : \E f \in s.pending : \E r \in StatResults(f) : PollStat(s, f, r)
  \/ \E s \in ScanSet : FilterDone(s)
  \/ \E m \in Mtimes(1) : m > fs[1] /\ FsWrite(1, m)

SpecPair == InitPair /\ [][NextPair]_vars

\* ------------------------------------------------------------ properties

\* The files whose path ends with the characters ".t".
TFiles ==
  { f \in Files : LET p == PathOf[f]
                  IN  Len(p) >= 2 /\ p[Len(p) - 1] = "." /\ p[Len(p)] = "t" }

\* Instance w was created with the extension filter ".t" / with no filter.
Filtered(w) == inst[w].extension = ExtT
Unfiltered(w) == inst[w].extension = Null

\* C1: for a watch with an extension filter, no poll cycle invokes onResult
\* for a matching file that was on disk at construction and whose mtime has
\* not changed since; each such file has its ModTimeStore entry before a
\* timer is armed or a poll scan runs.
C1_SeededFilesNotReported ==
  \A w \in DOMAIN inst : Filtered(w) =>
    /\ (event.out = "onResult" /\ event.w = w)
         => Range(event.files) \cap (hist[w].pre \cap TFiles) = {}
    /\ (inst[w].pollTimer \/ PollScans(w) > 0)
         => \A f \in hist[w].pre \cap TFiles : fileModTimes[f] # NoEntry

\* C2: for a watch with no extension filter, when the startup scan completes
\* every entry that was on disk at construction (and is unchanged) has a
\* ModTimeStore entry, and the first poll cycle delivers none of those files.
C2_UnfilteredSeeded ==
  [][ \A w \in DOMAIN inst : Unfiltered(w) =>
        /\ (event'.cycle = "startup" /\ event'.w = w /\ event'.error = "null")
             => \A f \in hist'[w].pre : fileModTimes'[f] # NoEntry
        /\ (event'.cycle = "poll" /\ event'.w = w /\ hist[w].first
              /\ event'.out = "onResult")
             => Range(event'.files) \cap hist[w].pre = {} ]_vars

\* A poll cycle of instance w, a filtered watch whose history is exact, comes
\* to its end in this step with every listing and stat successful.
CleanCycle(w) ==
  /\ Filtered(w) /\ hist[w].exact
  /\ event'.cycle = "poll" /\ event'.w = w
  /\ event'.error = "null" /\ event'.thrown = "none"

\* C3: for a single running watch with an extension filter, when K >= 1 new
\* matching files appeared since the last cycle and nothing else changed, the
\* cycle invokes onResult with a null error and exactly those K paths; a
\* later cycle before which nothing changed invokes no callback.
C3_NewFilesReportedOnce ==
  [][ \A w \in DOMAIN inst : (CleanCycle(w) /\ hist[w].mods = {}) =>
        LET K == hist[w].news \cap TFiles
        IN  /\ K # {} => /\ event'.out = "onResult" /\ event'.fdef
                         /\ Range(event'.files) = K
                         /\ Len(event'.files) = Cardinality(K)
            /\ (K = {} /\ ~hist[w].first) => event'.out = "none" ]_vars

\* C4: when the mtime of one matching file that was reported or seeded has
\* risen since the last cycle and nothing else changed, the cycle invokes
\* onResult with exactly that one file; no cycle reports a file that neither
\* appeared nor had its mtime raised since the last cycle.
C4_ModifiedFileReportedOnce ==
  [][ \A w \in DOMAIN inst : CleanCycle(w) =>
        /\ \A f \in TFiles : (hist[w].mods = {f} /\ hist[w].news \cap TFiles = {})
             => (event'.out = "onResult" /\ event'.fdef /\ event'.files = <<f>>)
        /\ event'.out = "onResult"
             => Range(event'.files) \subseteq hist[w].news \cup hist[w].mods ]_vars

\* C5: for a watch with an extension filter, a poll cycle before which no
\* matching file appeared or changed (the directory is empty, or only files
\* without the extension are new) does not invoke onResult; a file without
\* the extension is in no delivered list and gets no ModTimeStore entry.
C5_NonMatchingIgnored ==
  [][ \A w \in DOMAIN inst : Filtered(w) =>
        /\ (CleanCycle(w) /\ (hist[w].news \cup hist[w].mods) \cap TFiles = {})
             => event'.out = "none"
        /\ (event'.out = "onResult" /\ event'.w = w /\ event'.fdef)
             => Range(event'.files) \subseteq TFiles
        /\ \A f \in Files \ TFiles : fileModTimes'[f] = NoEntry ]_vars

\* C6: onResult is never invoked with both a null error and an empty file
\* list: each invocation carries a non-null error or at least one path.
C6_NeverNullAndEmpty ==
  event.out = "onResult" =>
    (event.error # "null" \/ (event.fdef /\ Len(event.files) > 0))

\* An invocation of onResult with a null error and a list of files.
C6_Witness ==
  event.out = "onResult" /\ event.error = "null" /\ event.fdef /\ Len(event.files) > 0

\* A config that is absent, or lacks a non-empty path or a pollCallback.
Lacking(c) == ~c.present \/ c.path = <<>> \/ ~c.pollCallback

\* C7: for every config that is absent or lacks a non-empty path or a
\* pollCallback, the constructor and create() throw an error, and the
\* registry, ModTimeStore, the instances' timers and the scans in flight are
\* left unchanged (no listing starts).
C7_InvalidConfigRejected ==
  [][ \A c \in Configs \cup BadConfigs :
        (Lacking(c) /\ (create(c) \/ New(c)))
          => /\ event'.thrown = "Error" /\ event'.out = "none"
             /\ UNCHANGED <<pollHandles, fileModTimes, inst, scans>> ]_vars

\* A config was rejected while a watch was registered.
C7_Witness ==
  event.thrown = "Error" /\ \E p \in Paths : pollHandles[p] # NoHandle

\* C8: when the listing of a poll cycle fails with ENOENT, onResult is not
\* invoked, nothing is thrown, and the watch has rearmed its timer.
C8_MissingRootSwallowed ==
  (event.cycle = "poll" /\ event.stage = "list" /\ event.error = "ENOENT")
    => (event.out = "none" /\ event.thrown = "none" /\ inst[event.w].pollTimer)

\* C9: when a poll cycle fails with a listing, stat or custom-sort error that
\* is not "not found", onResult is invoked with that error and an undefined
\* file list, nothing is thrown, and the watch has rearmed its timer.
C9_ErrorsDeliveredAndRearmed ==
  (event.cycle = "poll" /\ event.error \notin {"null", "ENOENT"})
    => /\ event.out = "onResult" /\ ~event.fdef /\ event.files = <<>>
       /\ event.thrown = "none"
       /\ inst[event.w].pollTimer

\* A poll cycle ended in an fs.stat callback with an error other than ENOENT.
C9_Witness ==
  event.cycle = "poll" /\ event.stage = "stat" /\ event.error = "EIO"

\* C10: a listing or stat failure of the startup scan is thrown and not
\* delivered through onResult; from then on the instance stays in its
\* startup phase: startupInit is true, no timer is armed, no poll scan runs
\* and onResult is not invoked for it.
C10_StartupFailureIsFatal ==
  /\ (event.cycle = "startup" /\ event.error # "null")
       => (event.thrown = event.error /\ event.out = "none")
  /\ \A s \in ScanSet : (s.kind = "startup" /\ s.failed) =>
       /\ inst[s.w].startupInit /\ ~inst[s.w].pollTimer
       /\ PollScans(s.w) = 0
       /\ ~(event.out = "onResult" /\ event.w = s.w)

\* A startup scan has failed in an fs.stat callback, all its stats have
\* called back, and start() has been called on the instance.
C10_Witness ==
  \E s \in ScanSet : /\ s.kind = "startup" /\ s.failed /\ s.stage = "dead"
                     /\ inst[s.w].startupTimerRequest
                     /\ \E f \in Files : fileModTimes[f] # NoEntry

\* C11 (as stated): a failure of the startup listing or stat is thrown by
\* the constructor or create call itself, and once a startup scan has failed
\* no registry entry holds its watch.
C11_FailedStartupLeavesNoWatch ==
  /\ (event.cycle = "startup" /\ event.thrown # "none") => event.op \in {"create", "new"}
  /\ \A w \in DOMAIN inst : StartupFailed(w) => \A p \in Paths : pollHandles[p] # w

\* C11 (amended): a failure of the startup listing or stat is thrown in the
\* scan's callback, after the constructor or create has returned the watch,
\* and leaves the registry as it is; create for a path whose registered watch
\* failed its startup returns that watch and constructs nothing; create for a
\* path with no entry (as after destroy) constructs and registers a new watch.
C11_FailedStartupStaysRegistered ==
  [][ /\ (event'.cycle = "startup" /\ event'.error # "null")
         => /\ event'.op = "none" /\ event'.thrown = event'.error
            /\ event'.w \in DOMAIN inst
            /\ pollHandles' = pollHandles
      /\ \A c \in CallConfigs :
           /\ (create(c) /\ pollHandles[c.path] # NoHandle
                 /\ StartupFailed(pollHandles[c.path]))
                => /\ inst' = inst /\ scans' = scans /\ pollHandles' = pollHandles
                   /\ event'.w = pollHandles[c.path]
           /\ (create(c) /\ pollHandles[c.path] = NoHandle)
                => /\ Len(inst') = Len(inst) + 1
                   /\ pollHandles'[c.path] = Len(inst')
                   /\ \A s \in BagToSet(scans') : s.w = Len(inst') => ~s.failed ]_vars

\* create was called for a path whose registered watch had failed its
\* startup scan, and returned that watch.
C11_Witness ==
  event.op = "create" /\ ~event.changed /\ StartupFailed(event.w)

\* C12: under any sequence of start(), stop(), timer fires and scan
\* completions a watch has at most one armed timer, and its handle is set
\* exactly while that timer is armed; start() called while a timer is pending
\* leaves the instance as it is.
C12_AtMostOneTimer ==
  [][ \A w \in DOMAIN inst' :
        /\ inst'[w].timers <= 1
        /\ inst'[w].pollTimer <=> inst'[w].timers = 1
        /\ (w \in DOMAIN inst /\ Start(w) /\ inst[w].pollTimer) => inst' = inst ]_vars

\* start() was called on a watch whose timer was pending.
C12_Witness ==
  /\ event.op = "start" /\ ~event.changed
  /\ inst[event.w].pollTimer /\ inst[event.w].timers = 1

\* A scan of instance w (startup or poll) will still call its final callback.
LiveScan(w) == \E s \in ScanSet : s.w = w /\ ~s.failed

\* Instance w has no timer and no scan that could arm one.
Inert(w) == ~inst[w].pollTimer /\ inst[w].timers = 0 /\ ~LiveScan(w)

\* onResult of instance w is invoked in this step.
Invoked(w) == event'.out = "onResult" /\ event'.w = w

RECURSIVE LiveCount(_, _)
LiveCount(S, w) ==
  IF S = {} THEN 0
  ELSE LET s == CHOOSE x \in S : TRUE
       IN  (IF s.w = w /\ s.kind = "poll" /\ ~s.failed THEN CopiesIn(s, scans) ELSE 0)
           + LiveCount(S \ {s}, w)

LivePolls(w) == LiveCount(ScanSet, w)

\* C14: for every watch and every interleaving of the user's start() and
\* stop() with timer fires and scan completions, at most one poll cycle is in
\* flight: the timer fires only when no poll scan of the watch is running.
C14_OneCycleInFlight ==
  \A w \in DOMAIN inst : LivePolls(w) <= 1

\* C20: start() called while a poll cycle of the watch is in flight (the timer
\* has fired and poll's callback has not yet run) is a no-op: it arms no
\* timer and changes no state.
C20_StartWhileScanningIsNoOp ==
  [][ \A w \in DOMAIN inst :
        (Start(w) /\ LivePolls(w) >= 1)
          => (inst' = inst /\ ~event'.changed) ]_vars

\* Instance w was made by create (which alone calls start() while the
\* startup scan runs, when the handle is used for nothing else) and no
\* registry entry names it any more: destroy has returned for it.
Destroyed(w) ==
  /\ inst[w].startupTimerRequest
  /\ \A p \in Paths : pollHandles[p] # w

\* C15: after destroy(path) has returned, the destroyed watch has no timer
\* pending, arms none again and invokes onResult no more, whether destroy
\* found it Initializing, Scheduled or Scanning.
C15_DestroyedWatchIsSilent ==
  \A w \in DOMAIN inst :
    Destroyed(w) => /\ ~inst[w].pollTimer /\ inst[w].timers = 0
                    /\ ~(event.out = "onResult" /\ event.w = w)

\* Every registry entry names an instance built for that very key, and no
\* two keys name the same instance.
RegistryOneToOne ==
  \A p \in Paths :
    pollHandles[p] # NoHandle =>
      /\ pollHandles[p] \in DOMAIN inst
      /\ inst[pollHandles[p]].path = p
      /\ \A q \in Paths \ {p} : pollHandles[q] # pollHandles[p]

\* C16: the registry holds at most one watch per path key.  create(config)
\* for a key that has a watch returns that instance, constructs nothing,
\* does not call start() on it and applies nothing of config; for a key
\* without a watch it constructs one from config, registers it under the key
\* and calls start() on it.
C16_CreateReusesOrConstructs ==
  [][ /\ RegistryOneToOne'
      /\ \A c \in CallConfigs :
            create(c) =>
              IF pollHandles[c.path] # NoHandle
              THEN /\ inst' = inst /\ scans' = scans /\ pollHandles' = pollHandles
                   /\ event'.w = pollHandles[c.path] /\ ~event'.changed
                   /\ event'.thrown = "none"
              ELSE /\ Len(inst') = Len(inst) + 1
                   /\ \A w \in DOMAIN inst : inst'[w] = inst[w]
                   /\ pollHandles' = [pollHandles EXCEPT ![c.path] = Len(inst')]
                   /\ event'.w = Len(inst') /\ event'.thrown = "none"
                   /\ inst'[Len(inst')] =
                        [NewInstance(c) EXCEPT !.startupTimerRequest = TRUE]
                   /\ \E s \in BagToSet(scans') :
                        s.w = Len(inst') /\ s.kind = "startup" /\ s.stage = "list" ]_vars

\* create has returned the registered watch of a key, which the user had
\* stopped after its startup scan, and left it stopped.
C16_Witness ==
  /\ event.op = "create" /\ ~event.changed
  /\ hist[event.w].stopped
  /\ ~inst[event.w].startupInit /\ ~inst[event.w].pollTimer

\* C17: destroy(path) for a path without a registered watch, or for an empty
\* path, raises nothing and leaves the registry, every watch and
\* fileModTimes unchanged; destroy(path) of a registered watch makes
\* getHandle(path) null and leaves the other registry entries, the other
\* watches and all entries of fileModTimes as they were.
C17_DestroyFrame ==
  [][ \A d \in Paths \cup {<<>>} :
        destroy(d) =>
          /\ event'.thrown = "none"
          /\ fileModTimes' = fileModTimes
          /\ IF d \notin Paths \/ pollHandles[d] = NoHandle
             THEN inst' = inst /\ pollHandles' = pollHandles /\ scans' = scans
             ELSE /\ getHandle(d)' = NoHandle
                  /\ \A q \in Paths \ {d} : pollHandles'[q] = pollHandles[q]
                  /\ Len(inst') = Len(inst)
                  /\ \A w \in DOMAIN inst \ {pollHandles[d]} : inst'[w] = inst[w] ]_vars

\* destroy has removed one of two registered watches while fileModTimes
\* holds an entry.
C17_Witness ==
  /\ event.op = "destroy" /\ event.changed
  /\ \A p \in Paths : pollHandles[p] # event.w
  /\ \E q \in Paths : pollHandles[q] # NoHandle
  /\ \E f \in Files : fileModTimes[f] # NoEntry

\* q is in ascending order of its paths, compared by code units.
IsAscending(q) ==
  \A i, j \in DOMAIN q : i < j => ~StrLess(PathOf[q[j]], PathOf[q[i]])

\* q holds the files of fl, each once.
IsPermutation(q, fl) ==
  /\ Len(q) = Len(fl)
  /\ \A f \in Files : Cardinality({ k \in DOMAIN q : q[k] = f })
                        = Cardinality({ k \in DOMAIN fl : fl[k] = f })

\* The step hands the filtered list fl of scan s to sortFiles: what it must
\* deliver, or whom it must call.
SortedAsConfigured(s, fl) ==
  LET rec == inst[s.w]
      atSort == { x \in BagToSet(scans') : x.w = s.w /\ x.stage = "sort" }
  IN  IF Len(fl) < 2 \/ ~rec.sort
      THEN /\ atSort = {}
           /\ event'.thrown = "none"
           /\ IF Len(fl) = 0 THEN event'.out = "none"
              ELSE event'.out = "onResult" /\ event'.fdef /\ event'.files = fl
      ELSE IF rec.sortMethod = "default"
      THEN /\ atSort = {}
           /\ event'.out = "onResult" /\ event'.fdef
           /\ IsAscending(event'.files) /\ IsPermutation(event'.files, fl)
      ELSE /\ event'.out = "none"
           /\ \E x \in atSort : x.files = fl

\* C18: with sorting enabled and no custom routine, a delivered list of two
\* or more paths is the filtered list in ascending lexicographic order; with
\* a custom sortMethod the delivered list is what that routine returned; with
\* sorting disabled or fewer than two files no sort routine is called and the
\* filtered list is delivered as it is.
C18_SortedAsConfigured ==
  [][ \A s \in ScanSet :
        /\ FilterDone(s)
             => SortedAsConfigured(s, SelectSeq(s.files, LAMBDA f : f \in s.keep))
        /\ \A r \in ListResults :
             (/\ PollListed(s, r) /\ r.error = "null"
              /\ (Len(r.files) = 0 \/ inst[s.w].extension = Null))
               => SortedAsConfigured(s, r.files)
        /\ \A r \in SortResults(s.files) :
             (SortDone(s, r) /\ r.error = "null")
               => /\ inst[s.w].sort /\ inst[s.w].sortMethod = "custom"
                  /\ Len(s.files) >= 2
                  /\ event'.out = "onResult" /\ event'.files = r.files ]_vars

\* The default sort has delivered /d/a.t before /d/b.t.
C18_Witness ==
  /\ event.out = "onResult" /\ event.cycle = "poll" /\ event.fdef
  /\ Len(event.files) >= 2
  /\ inst[event.w].sort /\ inst[event.w].sortMethod = "default"
  /\ event.files = <<2, 1>>

\* Instance w is in the registry.
Registered(w) == \E p \in Paths : pollHandles[p] = w

\* Instance w, made by create and still registered, has finished its startup
\* scan and has neither a timer pending nor a poll scan in flight: it will
\* not poll again.
StoppedPolling(w) ==
  /\ Registered(w)
  /\ inst[w].startupTimerRequest /\ ~inst[w].startupInit
  /\ ~inst[w].pollTimer /\ LivePolls(w) = 0

\* C19: a watch made by create() on a listable directory starts polling by
\* itself: the start() recorded while it was Initializing is replayed when
\* the startup scan succeeds, and from then on the watch always has its timer
\* armed or a poll cycle in flight; a watch built by the constructor alone,
\* with no start() call, has no timer during or after initialization.
C19_CreatedWatchKeepsPolling ==
  [][ \A w \in DOMAIN inst :
        /\ (inst[w].startupInit /\ ~inst'[w].startupInit /\ inst[w].startupTimerRequest)
             => inst'[w].pollTimer
        /\ ~inst'[w].startupTimerRequest
             => (~inst'[w].pollTimer /\ inst'[w].timers = 0)
        /\ ~StoppedPolling(w)' ]_vars

\* A poll cycle of instance w ends in this step.
CycleEnds(w) == event'.cycle = "poll" /\ event'.w = w

\* The user has just called stop() on instance w while a poll cycle of it
\* was in flight.
StoppedInFlight(w) ==
  event.op = "stop" /\ event.w = w /\ LivePolls(w) >= 1

\* C21: stop() called while a poll cycle is in flight does not cancel that
\* cycle: the scan goes on, its delivery decision is made (onResult is
\* invoked when the result is reportable) and the timer is rearmed at its
\* end, so the watch is Scheduled although stop() was the user's last call.
C21_StopDoesNotCancelCycle ==
  [][ \A w \in DOMAIN inst :
        /\ Stop(w) => scans' = scans
        /\ (StoppedInFlight(w) /\ CycleEnds(w))
             => /\ event'.thrown = "none"
                /\ event'.error \notin {"null", "ENOENT"} => event'.out = "onResult"
                /\ (event'.fdef /\ Len(event'.files) > 0) => event'.out = "onResult"
                /\ inst'[w].pollTimer /\ inst'[w].timers = 1 ]_vars

\* C22: each poll cycle keeps a fixed order.  The timer handle is cleared
\* when the cycle starts and, unless the user calls start(), no timer is
\* pending while the scan of the one cycle in flight runs; a step invokes
\* onResult only as the end of one cycle, so at most once per cycle; and
\* after initialization only the user's start() or the end of a cycle, with
\* its delivery decision made, arms the timer.
C22_CycleOrder ==
  [][ \A w \in DOMAIN inst :
        /\ TimerFire(w) => (~inst'[w].pollTimer /\ inst'[w].timers = 0)
        /\ (/\ LivePolls(w) = 1 /\ LivePolls(w)' = 1
            /\ ~inst[w].pollTimer /\ ~Start(w))
             => (~inst'[w].pollTimer /\ inst'[w].timers = 0)
        /\ Invoked(w)
             => (CycleEnds(w) /\ LivePolls(w)' = LivePolls(w) - 1)
        /\ (/\ inst'[w].timers > inst[w].timers
            /\ ~inst[w].startupInit /\ ~Start(w))
             => /\ CycleEnds(w) /\ event'.thrown = "none"
                /\ LivePolls(w)' = LivePolls(w) - 1 ]_vars

\* A cycle during which no timer was pending has ended: it has invoked
\* onResult and armed the timer, and no cycle is in flight.
C22_Witness ==
  /\ event.cycle = "poll" /\ event.out = "onResult"
  /\ inst[event.w].pollTimer /\ inst[event.w].timers = 1
  /\ LivePolls(event.w) = 0

\* After the step, the poll scan of instance w keeps file f.
KeptBy(w, f) ==
  \E x \in ScanSet : x.w = w /\ x.kind = "poll" /\ ~x.failed /\ f \in x.keep

\* C23: in the filter stage with an extension configured, for every matching
\* file and every stored and current timestamp, zero included, the file is
\* kept and its stored timestamp set to the current one exactly when it has
\* no entry in fileModTimes or its stored timestamp is strictly older than
\* the current one; otherwise it is dropped and the entry stays as it is.
C23_KeptIffAbsentOrOlder ==
  [][ \A s \in ScanSet : \A f \in Files : \A r \in StatResults(f) :
        (PollStat(s, f, r) /\ r.error = "null" /\ ~s.failed)
          => IF fileModTimes[f] = NoEntry \/ fileModTimes[f] < r.mtimeMs
             THEN /\ fileModTimes' = [fileModTimes EXCEPT ![f] = r.mtimeMs]
                  /\ KeptBy(s.w, f)'
             ELSE /\ fileModTimes' = fileModTimes
                  /\ ~KeptBy(s.w, f)' ]_vars

C25_StatFailureDelivered ==
  [][ \A s \in ScanSet : \A f \in Files : \A r \in StatResults(f) :
        (PollStat(s, f, r) /\ r.error # "null" /\ ~s.failed)
          => /\ CycleEnds(s.w) /\ LivePolls(s.w)' = LivePolls(s.w) - 1
             /\ event'.thrown = "none"
             /\ event'.out = "onResult" /\ event'.error = r.error
             /\ inst'[s.w].pollTimer ]_vars

\* The files whose new timestamp the running poll scan s has written into
\* fileModTimes: those the filter kept.
WrittenBy(s) ==
  IF s.stage = "sort"
  THEN (IF inst[s.w].extension = Null THEN {} ELSE Range(s.files))
  ELSE s.keep

\* C26: no notification is lost.  A poll cycle that writes a file's new
\* timestamp into fileModTimes delivers that file to onResult at its end,
\* also when the stat of another file or the sort fails later in the cycle.
C26_WrittenIsDelivered ==
  [][ \A s \in ScanSet :
        /\ \A f \in Files : \A r \in StatResults(f) :
             (PollStat(s, f, r) /\ fileModTimes'[f] # fileModTimes[f])
               => KeptBy(s.w, f)'
        /\ (s.kind = "poll" /\ ~s.failed /\ CycleEnds(s.w) /\ WrittenBy(s) # {})
             => /\ event'.out = "onResult"
                /\ WrittenBy(s) \subseteq Range(event'.files) ]_vars

\* C27: when two running watches with extension filters cover the same
\* file, each new modification time of it is reported by at most one of
\* them, whatever the order of their stat callbacks.
C27_ReportedByOneWatch ==
  \A a, b \in DOMAIN hist :
    a # b => hist[a].got \cap hist[b].got = {}

\* Instance a is running (made by create, registered, past its startup scan)
\* and file f has a change it has yet to report: the next stat of f in one
\* of its poll cycles keeps the file.
Unreported(a, f) ==
  /\ Registered(a)
  /\ inst[a].startupTimerRequest /\ ~inst[a].startupInit
  /\ endsWith(PathOf[f], inst[a].extension)
  /\ fs[f] # Absent
  /\ keepFile(fileModTimes[f], fs[f])

\* C28: constructing another watch never hides a change from a running one.
\* A matching file created or modified under a running watch's root, not yet
\* reported by that watch, is still due to be reported by it after every
\* step of the startup scan of another watch.
C28_SeedingHidesNoChange ==
  [][ \A s \in ScanSet : \A f \in Files : \A r \in StatResults(f) :
        \A a \in DOMAIN inst \ {s.w} :
          (StartupStat(s, f, r) /\ Unreported(a, f)) => Unreported(a, f)' ]_vars

\* C29: stop() or destroy() called while the watch is Initializing cancels
\* the start() request recorded before: when the startup scan then
\* completes, no timer is armed.
C29_StopCancelsStartRequest ==
  [][ \A w \in DOMAIN inst :
        (/\ inst[w].startupInit /\ ~inst'[w].startupInit
         /\ (hist[w].stopped \/ Destroyed(w)))
          => (~inst'[w].pollTimer /\ inst'[w].timers = 0) ]_vars

\* C30: in every reachable state an instance whose startupInit is true has no
\* timer pending and no poll cycle in flight; startupInit changes only from
\* true to false, in the step in which the startup scan has finished the
\* last of its listed files without any error, and never becomes true again.
C30_NoPollingWhileInitializing ==
  [][ \A w \in DOMAIN inst' :
        /\ inst'[w].startupInit
             => /\ ~inst'[w].pollTimer /\ inst'[w].timers = 0
                /\ LivePolls(w)' = 0
        /\ w \in DOMAIN inst
             => /\ ~inst[w].startupInit => ~inst'[w].startupInit
                /\ (inst[w].startupInit /\ ~inst'[w].startupInit)
                     => /\ event'.cycle = "startup" /\ event'.w = w
                        /\ event'.thrown = "none"
                        /\ \E s \in ScanSet :
                             /\ s.w = w /\ s.kind = "startup" /\ ~s.failed
                             /\ Cardinality(s.pending) <= 1
                        /\ \A x \in BagToSet(scans') :
                             ~(x.w = w /\ x.kind = "startup") ]_vars

\* The user has called start() on an instance that is still Initializing:
\* the request is recorded and no timer is armed.
C30_Witness ==
  /\ event.op = "start" /\ event.changed
  /\ inst[event.w].startupInit /\ inst[event.w].startupTimerRequest
  /\ ~inst[event.w].pollTimer

====
